---- MODULE Spec2Model ----
(***************************************************************************)
(* The status line of i3blocks (bar.c): the Bar with its Block list, the   *)
(* i3bar protocol renderer, the terminal renderer, the click dispatcher    *)
(* and the log handler that surfaces errors on the bar and freezes it.     *)
(*                                                                         *)
(* Text is modelled byte by byte: a C string is a sequence of one-         *)
(* character strings ("ESC" stands for the byte 033, LongRun for a run of  *)
(* BUFSIZ bytes 'x').  A map (map.h) is a sequence of <<key, value>>       *)
(* pairs in insertion order; a block is its attribute map.                 *)
(***************************************************************************)
EXTENDS Integers, Sequences, FiniteSets, TLC

(* ------------------------------ bounds -------------------------------- *)
\* Blocks that bar_config_cb may append after the sentinel.
MaxBlocks == 1
\* Click lines that may wait on standard input.
MaxLines == 2
\* Top-level elements (updates and error elements) written to stdout.
MaxElems == 3

(* ----------------------- constants of the program --------------------- *)
BUFSIZ == 8192
ENOMEM == 12
EAGAIN == 11
EINVAL == 22
ENOSPC == 28
LOG_FATAL == 0
LOG_ERROR == 1
LOG_WARN == 2
LOG_DEBUG == 3

\* The null pointer, as a value no C string equals.
NULL == <<"NULL">>
\* A run of BUFSIZ bytes 'x', kept as one element.
LongRun == "x*BUFSIZ"

Q == "\""
BS == "\\"
NL == "\n"

(* ------------------------------ key names ----------------------------- *)
k_empty == <<>>
k_full_text == <<"f", "u", "l", "l", "_", "t", "e", "x", "t">>
k_short_text == <<"s", "h", "o", "r", "t", "_", "t", "e", "x", "t">>
k_color == <<"c", "o", "l", "o", "r">>
k_background == <<"b", "a", "c", "k", "g", "r", "o", "u", "n", "d">>
k_border == <<"b", "o", "r", "d", "e", "r">>
k_min_width == <<"m", "i", "n", "_", "w", "i", "d", "t", "h">>
k_align == <<"a", "l", "i", "g", "n">>
k_name == <<"n", "a", "m", "e">>
k_instance == <<"i", "n", "s", "t", "a", "n", "c", "e">>
k_urgent == <<"u", "r", "g", "e", "n", "t">>
k_separator == <<"s", "e", "p", "a", "r", "a", "t", "o", "r">>
k_separator_block_width == <<"s", "e", "p", "a", "r", "a", "t", "o", "r", "_", "b", "l", "o", "c", "k", "_", "w", "i", "d", "t", "h">>
k_markup == <<"m", "a", "r", "k", "u", "p">>
k_border_top == <<"b", "o", "r", "d", "e", "r", "_", "t", "o", "p">>
k_border_bottom == <<"b", "o", "r", "d", "e", "r", "_", "b", "o", "t", "t", "o", "m">>
k_border_left == <<"b", "o", "r", "d", "e", "r", "_", "l", "e", "f", "t">>
k_border_right == <<"b", "o", "r", "d", "e", "r", "_", "r", "i", "g", "h", "t">>
k_button == <<"b", "u", "t", "t", "o", "n">>

(* ------------------------- text written by bar.c ---------------------- *)
Preamble == <<"{", "\"", "v", "e", "r", "s", "i", "o", "n", "\"", ":", "1", ",", "\"", "c", "l", "i", "c", "k", "_", "e", "v", "e", "n", "t", "s", "\"", ":", "t", "r", "u", "e", "}", "\n", "[", "[", "]", "\n">>
Epilogue == <<"]", "\n">>
Anchor == <<",", "[", "{", "\"", "f", "u", "l", "l", "_", "t", "e", "x", "t", "\"", ":", "\"", "\"", "}">>
BlockOpen == <<",", "{", "\"", "\"", ":", "\"", "\"">>
BlockClose == <<"}">>
UpdateClose == <<"]", "\n">>
SaveCursor == <<"ESC", "[", "s", "ESC", "[", "?", "2", "5", "l">>
RestoreCursor == <<"ESC", "[", "u", "ESC", "[", "K">>
ResetCursor == <<"ESC", "[", "?", "2", "5", "h">>
PrefixFatal == <<"F", "a", "t", "a", "l", "!", " ">>
PrefixError == <<"E", "r", "r", "o", "r", ":", " ">>
ColorFatal == <<"#", "F", "F", "0", "0", "0", "0">>
ColorError == <<"#", "F", "F", "8", "0", "0", "0">>
ColorDefault == <<"#", "F", "F", "F", "F", "F", "F">>
LogSuffix == <<".", " ", "I", "n", "c", "r", "e", "a", "s", "e", " ", "l", "o", "g", " ", "l", "e", "v", "e", "l", " ", "a", "n", "d", "/", "o", "r", " ", "c", "h", "e", "c", "k", " ", "s", "t", "d", "e", "r", "r", " ", "f", "o", "r", " ", "d", "e", "t", "a", "i", "l", "s", ".">>
LogOpen == <<",", "[", "{">>
LogFullText == <<"\"", "f", "u", "l", "l", "_", "t", "e", "x", "t", "\"", ":", "\"">>
LogShortText == <<"\"", "s", "h", "o", "r", "t", "_", "t", "e", "x", "t", "\"", ":", "\"">>
LogUrgent == <<"\"", "u", "r", "g", "e", "n", "t", "\"", ":", "\"">>
LogColor == <<"\"", "c", "o", "l", "o", "r", "\"", ":", "\"">>
LogClose == <<"}", "]", "\n">>
s_null == <<"n", "u", "l", "l">>
s_true == <<"t", "r", "u", "e">>
s_false == <<"f", "a", "l", "s", "e">>

\* The known-key table: index 0 (here position 1) is the unknown key.
i3bar_keys == <<
    [key |-> k_empty, string |-> FALSE],
    [key |-> k_full_text, string |-> TRUE],
    [key |-> k_short_text, string |-> TRUE],
    [key |-> k_color, string |-> TRUE],
    [key |-> k_background, string |-> TRUE],
    [key |-> k_border, string |-> TRUE],
    [key |-> k_min_width, string |-> FALSE],
    [key |-> k_align, string |-> TRUE],
    [key |-> k_name, string |-> TRUE],
    [key |-> k_instance, string |-> TRUE],
    [key |-> k_urgent, string |-> FALSE],
    [key |-> k_separator, string |-> FALSE],
    [key |-> k_separator_block_width, string |-> FALSE],
    [key |-> k_markup, string |-> TRUE],
    [key |-> k_border_top, string |-> FALSE],
    [key |-> k_border_bottom, string |-> FALSE],
    [key |-> k_border_left, string |-> FALSE],
    [key |-> k_border_right, string |-> FALSE]
>>

\* strcmp(a, b) == 0
StrEq(a, b) == a = b

\* Index (from 0) of the first entry of the table whose key equals key, or 0.
i3bar_indexof(key) ==
    LET hits == {i \in 0..(Len(i3bar_keys) - 1) : StrEq(i3bar_keys[i + 1].key, key)}
    IN  IF hits = {} THEN 0 ELSE CHOOSE i \in hits : \A j \in hits : i <= j

(* ------------------------------- strings ------------------------------ *)
\* strlen: the number of bytes of a string.
RECURSIVE ByteLen(_)
ByteLen(s) ==
    IF s = <<>> THEN 0
    ELSE (IF Head(s) = LongRun THEN BUFSIZ ELSE 1) + ByteLen(Tail(s))

Digits == {"0", "1", "2", "3", "4", "5", "6", "7", "8", "9"}
Escapable == {Q, BS, "/", "b", "f", "n", "r", "t"}

\* The body of a JSON string from position i up to the closing quote at Len(v).
RECURSIVE json_string_body(_, _)
json_string_body(v, i) ==
    IF i >= Len(v) THEN i = Len(v)
    ELSE IF v[i] = BS THEN i + 1 < Len(v) /\ v[i + 1] \in Escapable /\ json_string_body(v, i + 2)
    ELSE IF v[i] \in {Q, NL} THEN FALSE
    ELSE json_string_body(v, i + 1)

\* json.h: the value is a syntactically valid quoted JSON string.
json_is_string(v) ==
    /\ Len(v) >= 2
    /\ v[1] = Q
    /\ v[Len(v)] = Q
    /\ json_string_body(v, 2)

json_is_number(v) ==
    LET d == IF v # <<>> /\ v[1] = "-" THEN Tail(v) ELSE v
    IN  /\ d # <<>>
        /\ \A i \in 1..Len(d) : d[i] \in Digits
        /\ (Len(d) > 1 => d[1] # "0")

\* json.h: the value parses as JSON (a string, a number or a literal).
json_is_valid(v) ==
    \/ json_is_string(v)
    \/ json_is_number(v)
    \/ v \in {s_true, s_false, s_null}

RECURSIVE json_escape_chars(_)
json_escape_chars(v) ==
    IF v = <<>> THEN <<>>
    ELSE (IF Head(v) \in {Q, BS} THEN <<BS, Head(v)>>
          ELSE IF Head(v) = NL THEN <<BS, "n">>
          ELSE <<Head(v)>>) \o json_escape_chars(Tail(v))

\* json.h: json_escape(str, buf, size) writes the quoted, escaped string
\* into buf; it fails when the result and its terminator do not fit.
json_escape(v, size) ==
    LET buf == <<Q>> \o json_escape_chars(v) \o <<Q>>
    IN  IF ByteLen(buf) + 1 > size
        THEN [err |-> -ENOSPC, buf |-> <<>>]
        ELSE [err |-> 0, buf |-> buf]

(* -------------------------------- maps -------------------------------- *)
\* map.h: the value stored under key, or NULL.
map_get(map, key) ==
    LET hits == {i \in 1..Len(map) : StrEq(map[i][1], key)}
    IN  IF hits = {} THEN NULL
        ELSE map[CHOOSE i \in hits : \A j \in hits : i <= j][2]

\* map.h: store value under key, replacing an existing pair in place.
map_set(map, key, value) ==
    LET hits == {i \in 1..Len(map) : StrEq(map[i][1], key)}
    IN  IF hits = {} THEN Append(map, <<key, value>>)
        ELSE [map EXCEPT ![CHOOSE i \in hits : \A j \in hits : i <= j] = <<key, value>>]

\* block.h: a block's attributes live in its map.
block_get(block, key) == map_get(block, key)
block_set(block, key, value) == map_set(block, key, value)

(* -------------------------------- state ------------------------------- *)
VARIABLES
    bar,         \* "none" before bar_create, "live", "freed" after bar_destroy
    term,        \* bar->term
    frozen,      \* bar->frozen
    blocks,      \* the list bar->blocks, head first; a block is its map
    stdout,      \* every byte written to standard output so far
    log_handle,  \* the log sink: "NULL" or "i3bar_log"
    log_data,    \* the sink's context: "NULL" or "bar"
    log_level,   \* the configured reporting threshold
    stdin,       \* click lines left unread on standard input
    op,          \* the operation that ran last
    ret,         \* what it returned
    trace,       \* what it did, step by step
    nout         \* updates and error elements written so far

vars == <<bar, term, frozen, blocks, stdout, log_handle, log_data, log_level,
          stdin, op, ret, trace, nout>>

\* The part of the state the functions of bar.c work on.
Machine ==
    [term |-> term, frozen |-> frozen, blocks |-> blocks, stdout |-> stdout,
     log_handle |-> log_handle, log_data |-> log_data, stdin |-> stdin,
     trace |-> <<>>]

fprintf(m, text) == [m EXCEPT !.stdout = @ \o text]

\* One step of the running operation, for the record kept in trace: what
\* was done, to which block or with which result, and the frozen flag then.
Ev(m, e, b) == [m EXCEPT !.trace = Append(@, [e |-> e, b |-> b, f |-> m.frozen])]

\* The same, for the step that matches the click c against the list.
EvFind(m, b, c) ==
    [m EXCEPT !.trace = Append(@, [e |-> "bar_find", b |-> b, f |-> m.frozen,
                                   click |-> c, blocks |-> m.blocks])]

\* The same, for the merge of a click into block b: what map_for_each
\* returned and the list as the merge left it.
EvCopy(m, b, err) ==
    [m EXCEPT !.trace = Append(@, [e |-> "copy", b |-> b, f |-> m.frozen,
                                   err |-> err, blocks |-> m.blocks])]

\* The same, for a step that sets or clears the log sink: the sink as the
\* step left it and the number of bytes written to stdout by then.
EvSink(m, e) ==
    [m EXCEPT !.trace = Append(@, [e |-> e, b |-> 0, f |-> m.frozen,
                                   handle |-> m.log_handle, data |-> m.log_data,
                                   out |-> Len(m.stdout)])]

(* --------------------------- freeze / unfreeze ------------------------ *)
\* bar_freeze that flips the flag instead of setting it.
bar_freeze_toggles(m) == [m EXCEPT !.frozen = ~@]

bar_freeze(m) == [m EXCEPT !.frozen = TRUE]

\* bar_unfreeze that reports a frozen bar and leaves it frozen.
bar_unfreeze_keeps_flag(m) ==
    IF m.frozen
    THEN [ret |-> TRUE, m |-> Ev(m, "unfreeze", 0)]
    ELSE [ret |-> FALSE, m |-> m]

bar_unfreeze(m) ==
    IF m.frozen
    THEN [ret |-> TRUE, m |-> Ev([m EXCEPT !.frozen = FALSE], "unfreeze", 0)]
    ELSE [ret |-> FALSE, m |-> m]

bar_frozen(m) == m.frozen

(* ------------------------------ log handler --------------------------- *)
m_frozen == <<"b", "a", "r", " ", "f", "r", "o", "z", "e", "n", ",", " ", "s", "k", "i", "p", "p", "i", "n", "g">>
m_notext == <<"n", "o", " ", "t", "e", "x", "t", " ", "t", "o", " ", "d", "i", "s", "p", "l", "a", "y", ",", " ", "s", "k", "i", "p", "p", "i", "n", "g">>

\* vsnprintf(buf, size, ...): at most size - 1 bytes of the message are kept.
RECURSIVE vsnprintf(_, _)
vsnprintf(msg, size) ==
    IF msg = <<>> \/ ByteLen(<<Head(msg)>>) > size - 1 THEN <<>>
    ELSE <<Head(msg)>> \o vsnprintf(Tail(msg), size - ByteLen(<<Head(msg)>>))

LogPrefix(lvl) ==
    IF lvl = LOG_FATAL THEN PrefixFatal
    ELSE IF lvl = LOG_ERROR THEN PrefixError
    ELSE <<>>

LogColorOf(lvl) ==
    IF lvl = LOG_FATAL THEN ColorFatal
    ELSE IF lvl = LOG_ERROR THEN ColorError
    ELSE ColorDefault

LogUrgentOf(lvl) == s_true

\* The element i3bar_log writes for one message.
LogElement(lvl, msg) ==
    LET buf == vsnprintf(msg, BUFSIZ)
    IN  LogOpen
        \o LogFullText \o LogPrefix(lvl) \o buf \o LogSuffix \o <<Q>>
        \o <<",">>
        \o LogShortText \o LogPrefix(lvl) \o buf \o <<Q>>
        \o <<",">>
        \o LogUrgent \o LogUrgentOf(lvl) \o <<Q>>
        \o <<",">>
        \o LogColor \o LogColorOf(lvl) \o <<Q>>
        \o LogClose

\* i3bar_log without the test that keeps warnings and debug messages away.
i3bar_log_any_severity(m, lvl, msg) ==
    IF log_level < lvl
    THEN m
    ELSE bar_freeze(Ev(fprintf(m, LogElement(lvl, msg)), "i3bar_log", lvl))

i3bar_log(m, lvl, msg) ==
    IF log_level < lvl \/ lvl > LOG_ERROR
    THEN m
    ELSE bar_freeze(Ev(fprintf(m, LogElement(lvl, msg)), "i3bar_log", lvl))

\* log.h: a message goes to the installed handler, or to stderr alone.
log(m, lvl, msg) ==
    IF m.log_handle = "i3bar_log" THEN i3bar_log(m, lvl, msg) ELSE m

debug(m, msg) == log(m, LOG_DEBUG, msg)
error(m, msg) == log(m, LOG_ERROR, msg)

(* --------------------------- i3bar renderer --------------------------- *)
\* i3bar_dump_key that writes the keys the table does not know as well.
i3bar_dump_key_any(key, value) ==
    LET index  == i3bar_indexof(key)
        string == i3bar_keys[index + 1].string
        val    == IF value = NULL THEN s_null ELSE value
        escape == IF string THEN ~json_is_string(val) ELSE ~json_is_valid(val)
        esc    == json_escape(val, BUFSIZ)
    IN  IF escape /\ esc.err # 0 THEN [err |-> esc.err, out |-> <<>>]
        ELSE [err |-> 0,
              out |-> <<",", Q>> \o key \o <<Q, ":">> \o (IF escape THEN esc.buf ELSE val)]

\* i3bar_dump_key that takes any valid JSON under a must-be-string key.
i3bar_dump_key_untyped(key, value) ==
    LET index  == i3bar_indexof(key)
        val    == IF value = NULL THEN s_null ELSE value
        escape == ~json_is_valid(val)
        esc    == json_escape(val, BUFSIZ)
    IN  IF index = 0 THEN [err |-> 0, out |-> <<>>]
        ELSE IF escape /\ esc.err # 0 THEN [err |-> esc.err, out |-> <<>>]
        ELSE [err |-> 0,
              out |-> <<",", Q>> \o key \o <<Q, ":">> \o (IF escape THEN esc.buf ELSE val)]

\* What i3bar_dump_key writes for one pair, and what it returns.
i3bar_dump_key(key, value) ==
    LET index  == i3bar_indexof(key)
        string == i3bar_keys[index + 1].string
        val    == IF value = NULL THEN s_null ELSE value
        escape == IF string THEN ~json_is_string(val) ELSE ~json_is_valid(val)
        esc    == json_escape(val, BUFSIZ)
    IN  IF index = 0 THEN [err |-> 0, out |-> <<>>]
        ELSE IF escape /\ esc.err # 0 THEN [err |-> esc.err, out |-> <<>>]
        ELSE [err |-> 0,
              out |-> <<",", Q>> \o key \o <<Q, ":">> \o (IF escape THEN esc.buf ELSE val)]

\* block_for_each(block, i3bar_dump_key, NULL) from pair i on: the pairs in
\* the map's order, up to the first one that fails.
RECURSIVE dump_keys(_, _)
dump_keys(block, i) ==
    IF i > Len(block) THEN [err |-> 0, out |-> <<>>]
    ELSE LET r == i3bar_dump_key(block[i][1], block[i][2])
         IN  IF r.err # 0 THEN r
             ELSE LET rest == dump_keys(block, i + 1)
                  IN  [err |-> rest.err, out |-> r.out \o rest.out]

\* i3bar_dump_block that returns as soon as a key fails.
i3bar_dump_block_returns_on_error(m, block) ==
    LET r == dump_keys(block, 1)
        c == fprintf(fprintf(m, BlockOpen), r.out)
    IN  IF r.err # 0 THEN c ELSE fprintf(c, BlockClose)

i3bar_dump_block(m, block) ==
    fprintf(fprintf(fprintf(m, BlockOpen), dump_keys(block, 1).out), BlockClose)

\* The loop of i3bar_dump without the test for full_text.
RECURSIVE i3bar_dump_loop_all(_, _)
i3bar_dump_loop_all(m, i) ==
    IF i > Len(m.blocks) THEN m
    ELSE i3bar_dump_loop_all(i3bar_dump_block(m, m.blocks[i]), i + 1)

\* The loop of i3bar_dump from block i on.
RECURSIVE i3bar_dump_loop(_, _)
i3bar_dump_loop(m, i) ==
    IF i > Len(m.blocks) THEN m
    ELSE i3bar_dump_loop(
             IF block_get(m.blocks[i], k_full_text) # NULL
             THEN i3bar_dump_block(m, m.blocks[i])
             ELSE debug(m, m_notext),
             i + 1)

i3bar_dump(m) ==
    fprintf(i3bar_dump_loop(fprintf(Ev(m, "i3bar_dump", 0), Anchor), 1), UpdateClose)

(* -------------------------- terminal renderer ------------------------- *)
term_save_cursor(m) == fprintf(m, SaveCursor)
term_restore_cursor(m) == fprintf(m, RestoreCursor)
term_reset_cursor(m) == fprintf(m, ResetCursor)
term_start(m) == term_restore_cursor(term_save_cursor(m))
term_stop(m) == term_reset_cursor(m)

RECURSIVE term_dump_loop(_, _)
term_dump_loop(m, i) ==
    IF i > Len(m.blocks) THEN m
    ELSE LET full_text == block_get(m.blocks[i], k_full_text)
         IN  term_dump_loop(
                 IF full_text # NULL THEN fprintf(m, full_text \o <<" ">>) ELSE m,
                 i + 1)

term_dump(m) == term_dump_loop(term_restore_cursor(Ev(m, "term_dump", 0)), 1)

(* -------------------------------- bar_dump ---------------------------- *)
\* bar_dump that does not look at the frozen flag.
bar_dump_ignores_frozen(m) ==
    LET c == Ev(m, "bar_dump", 0)
    IN  IF c.term THEN term_dump(c) ELSE i3bar_dump(c)

bar_dump(m) ==
    LET c == Ev(m, "bar_dump", 0)
    IN  IF bar_frozen(c) THEN debug(c, m_frozen)
        ELSE IF c.term THEN term_dump(c)
        ELSE i3bar_dump(c)

(* ---------------------------- start and stop -------------------------- *)
i3bar_start(m) ==
    EvSink([fprintf(m, Preamble) EXCEPT !.log_data = "bar", !.log_handle = "i3bar_log"],
           "log_install")

\* i3bar_stop that leaves the log handler installed.
i3bar_stop_keeps_handler(m) == fprintf(m, Epilogue)

i3bar_stop(m) ==
    fprintf(EvSink([m EXCEPT !.log_handle = "NULL", !.log_data = "NULL"], "log_clear"),
            Epilogue)

(* ------------------------------- clicks ------------------------------- *)
\* a ?: "" of the C source
OrEmpty(a) == IF a # NULL THEN a ELSE <<>>

\* bar_find that keeps looking and returns the last block that matches.
bar_find_last(m, map) ==
    LET map_name     == OrEmpty(map_get(map, k_name))
        map_instance == OrEmpty(map_get(map, k_instance))
        hits == {i \in 1..Len(m.blocks) :
                    /\ StrEq(OrEmpty(block_get(m.blocks[i], k_name)), map_name)
                    /\ StrEq(OrEmpty(block_get(m.blocks[i], k_instance)), map_instance)}
    IN  IF hits = {} THEN 0 ELSE CHOOSE i \in hits : \A j \in hits : i >= j

\* bar_find that compares the names and not the instances.
bar_find_by_name(m, map) ==
    LET map_name == OrEmpty(map_get(map, k_name))
        hits == {i \in 1..Len(m.blocks) :
                    StrEq(OrEmpty(block_get(m.blocks[i], k_name)), map_name)}
    IN  IF hits = {} THEN 0 ELSE CHOOSE i \in hits : \A j \in hits : i <= j

\* Position in the list of the block bar_find returns, 0 for NULL.
bar_find(m, map) ==
    LET map_name     == OrEmpty(map_get(map, k_name))
        map_instance == OrEmpty(map_get(map, k_instance))
        hits == {i \in 1..Len(m.blocks) :
                    /\ StrEq(OrEmpty(block_get(m.blocks[i], k_name)), map_name)
                    /\ StrEq(OrEmpty(block_get(m.blocks[i], k_instance)), map_instance)}
    IN  IF hits = {} THEN 0 ELSE CHOOSE i \in hits : \A j \in hits : i <= j

\* bar_click_copy_cb that keeps the value a block already has under the key.
bar_click_copy_cb_keeps(block, key, value) ==
    IF block_get(block, key) # NULL THEN block ELSE block_set(block, key, value)

bar_click_copy_cb(block, key, value) == block_set(block, key, value)

\* map_for_each(click, bar_click_copy_cb, block) from pair i on; block_set
\* fails for want of memory at pair fail_at (0: never).
RECURSIVE click_copy(_, _, _, _)
click_copy(block, click, i, fail_at) ==
    IF i > Len(click) THEN [err |-> 0, block |-> block]
    ELSE IF i = fail_at THEN [err |-> -ENOMEM, block |-> block]
    ELSE click_copy(bar_click_copy_cb(block, click[i][1], click[i][2]), click, i + 1, fail_at)

\* json.h: json_read(STDIN_FILENO, 1, click) decodes the next line.  A line
\* of the model carries what decoding it gives (err, click) and what the
\* matched block's click action will do (fail_at, ret, log).
json_read(m) ==
    IF m.stdin = <<>>
    THEN [err |-> -EAGAIN, line |-> <<>>, m |-> Ev(m, "json_read", -EAGAIN)]
    ELSE [err |-> Head(m.stdin).err, line |-> Head(m.stdin),
          m |-> Ev([m EXCEPT !.stdin = Tail(@)], "json_read", Head(m.stdin).err)]

\* block.h: the click action of block i; it may report an error to the log.
block_click(m, i, line) ==
    LET c == Ev(m, "block_click", i)
    IN  [err |-> line.ret,
         m |-> IF line.log THEN error(Ev(c, "error", i), line.msg) ELSE c]

\* The loop of bar_click that goes on to the next line after a click action
\* failed.
RECURSIVE bar_click_loop_goes_on(_)
bar_click_loop_goes_on(m) ==
    LET r == json_read(m)
    IN  IF r.err # 0
        THEN [err |-> IF r.err = -EAGAIN THEN 0 ELSE r.err, m |-> r.m]
        ELSE LET i == bar_find(r.m, r.line.click)
                 f == EvFind(r.m, i, r.line.click)
             IN  IF i = 0 THEN bar_click_loop_goes_on(f)
                 ELSE LET cp == click_copy(f.blocks[i], r.line.click, 1, r.line.fail_at)
                          g  == EvCopy([f EXCEPT !.blocks[i] = cp.block], i, cp.err)
                      IN  IF cp.err # 0 THEN [err |-> cp.err, m |-> g]
                          ELSE bar_click_loop_goes_on(block_click(g, i, r.line).m)

\* The for (;;) loop of bar_click.
RECURSIVE bar_click_loop(_)
bar_click_loop(m) ==
    LET r == json_read(m)
    IN  IF r.err # 0
        THEN [err |-> IF r.err = -EAGAIN THEN 0 ELSE r.err, m |-> r.m]
        ELSE LET i == bar_find(r.m, r.line.click)
                 f == EvFind(r.m, i, r.line.click)
             IN  IF i = 0 THEN bar_click_loop(f)
                 ELSE LET cp == click_copy(f.blocks[i], r.line.click, 1, r.line.fail_at)
                          g  == EvCopy([f EXCEPT !.blocks[i] = cp.block], i, cp.err)
                      IN  IF cp.err # 0 THEN [err |-> cp.err, m |-> g]
                          ELSE LET bc == block_click(g, i, r.line)
                               IN  IF bc.err # 0 THEN [err |-> bc.err, m |-> bc.m]
                                   ELSE bar_click_loop(bc.m)

\* bar_click that reads the clicks first and dumps afterwards.
bar_click_dumps_last(m, map_ok) ==
    LET u == bar_unfreeze(m)
        r == IF ~map_ok THEN [err |-> -ENOMEM, m |-> u.m] ELSE bar_click_loop(u.m)
    IN  [err |-> r.err, m |-> IF u.ret THEN bar_dump(r.m) ELSE r.m]

\* bar_click that unfreezes and dumps once more when it returns.
bar_click_unfreezes_again(m, map_ok) ==
    LET u == bar_unfreeze(m)
        d == IF u.ret THEN bar_dump(u.m) ELSE u.m
        r == IF ~map_ok THEN [err |-> -ENOMEM, m |-> d] ELSE bar_click_loop(d)
        v == bar_unfreeze(r.m)
    IN  [err |-> r.err, m |-> IF v.ret THEN bar_dump(v.m) ELSE v.m]

\* bar_click; map_ok tells whether map_create succeeds.
bar_click(m, map_ok) ==
    LET u == bar_unfreeze(m)
        d == IF u.ret THEN bar_dump(u.m) ELSE u.m
    IN  IF ~map_ok THEN [err |-> -ENOMEM, m |-> d]
        ELSE bar_click_loop(d)

(* ---------------------------- adding blocks --------------------------- *)
\* block.h: block_setup gives the block the pairs of map (none for NULL).
block_setup(map) == IF map = NULL THEN <<>> ELSE map

\* bar_add_block: the block it returns, NULL when block_create ("nomem") or
\* block_setup ("setup") fails; in the second case the new block, which is
\* in no list (position 0), is destroyed.
bar_add_block(m, map, res) ==
    IF res = "nomem" THEN [block |-> NULL, m |-> m]
    ELSE IF res = "setup" THEN [block |-> NULL, m |-> Ev(m, "block_destroy", 0)]
    ELSE [block |-> block_setup(map), m |-> m]

\* bar_config_cb that links the new block right behind the head.
bar_config_cb_links_at_head(m, map, res) ==
    LET a == bar_add_block(m, map, res)
        c == Ev(a.m, "map_destroy", 0)
    IN  IF a.block = NULL THEN [err |-> -ENOMEM, m |-> c]
        ELSE [err |-> 0, m |-> [c EXCEPT !.blocks = <<Head(@), a.block>> \o Tail(@)]]

\* bar_config_cb that makes the new block the head of the list.
bar_config_cb_prepends(m, map, res) ==
    LET a == bar_add_block(m, map, res)
        c == Ev(a.m, "map_destroy", 0)
    IN  IF a.block = NULL THEN [err |-> -ENOMEM, m |-> c]
        ELSE [err |-> 0, m |-> [c EXCEPT !.blocks = <<a.block>> \o @]]

\* bar_config_cb: the new block becomes the next of the last block, the map
\* is destroyed, and a missing block is reported.
bar_config_cb(m, map, res) ==
    LET a == bar_add_block(m, map, res)
        c == Ev(a.m, "map_destroy", 0)
    IN  IF a.block = NULL THEN [err |-> -ENOMEM, m |-> c]
        ELSE [err |-> 0, m |-> [c EXCEPT !.blocks = Append(@, a.block)]]

(* ------------------------- create and destroy ------------------------- *)
\* bar_create that installs the log handler in terminal mode as well.
bar_create_installs_always(m, t, calloc_ok, res) ==
    LET a == bar_add_block(m, NULL, res)
    IN  IF ~calloc_ok THEN [bar |-> "none", m |-> m]
        ELSE IF a.block = NULL THEN [bar |-> "none", m |-> Ev(a.m, "free", 0)]
        ELSE LET c == [a.m EXCEPT !.blocks = <<a.block>>, !.term = t, !.frozen = FALSE]
             IN  [bar |-> "live",
                  m |-> IF t
                        THEN [term_start(c) EXCEPT !.log_data = "bar", !.log_handle = "i3bar_log"]
                        ELSE i3bar_start(c)]

\* bar_create: calloc_ok and res tell which allocations succeed.
bar_create(m, t, calloc_ok, res) ==
    LET a == bar_add_block(m, NULL, res)
    IN  IF ~calloc_ok THEN [bar |-> "none", m |-> m]
        ELSE IF a.block = NULL THEN [bar |-> "none", m |-> Ev(a.m, "free", 0)]
        ELSE LET c == [a.m EXCEPT !.blocks = <<a.block>>, !.term = t, !.frozen = FALSE]
             IN  [bar |-> "live", m |-> IF t THEN term_start(c) ELSE i3bar_start(c)]

RECURSIVE destroy_blocks(_, _)
destroy_blocks(m, i) ==
    IF i > Len(m.blocks) THEN [m EXCEPT !.blocks = <<>>]
    ELSE destroy_blocks(Ev(m, "block_destroy", i), i + 1)

\* bar_destroy that destroys the blocks and the bar first and stops last.
bar_destroy_stops_last(m) ==
    LET c == Ev(destroy_blocks(m, 1), "free", 0)
    IN  IF c.term THEN term_stop(c) ELSE i3bar_stop(c)

bar_destroy(m) ==
    Ev(destroy_blocks(IF m.term THEN term_stop(m) ELSE i3bar_stop(m), 1), "free", 0)

(* ------------------------------- inputs ------------------------------- *)
v_ok == <<"o", "k">>
v_qhello == <<"\"", "h", "e", "l", "l", "o", "\"">>
v_42 == <<"4", "2">>
v_cpu == <<"c", "p", "u">>
v_mem == <<"m", "e", "m">>
v_0 == <<"0">>
v_1 == <<"1">>
m_boom == <<"b", "o", "o", "m">>

\* Configured blocks: a visible one and the block "cpu"/"0" without text.
c_ok == << <<k_full_text, v_ok>> >>
c_cpu == << <<k_name, v_cpu>>, <<k_instance, v_0>> >>
Configs == {c_ok, c_cpu}

\* Click lines: the decoded click and what the click action does with it.
Line(click) == [err |-> 0, click |-> click, fail_at |-> 0, ret |-> 0, log |-> FALSE, msg |-> <<>>]
click_cpu == << <<k_name, v_cpu>>, <<k_instance, v_0>>, <<k_button, v_1>> >>
click_none == << <<k_button, v_1>> >>
click_empty == << <<k_name, <<>> >>, <<k_button, v_1>> >>
click_mem == << <<k_name, v_mem>> >>
l_cpu == Line(click_cpu)
l_none == Line(click_none)
l_empty == Line(click_empty)
l_mem == Line(click_mem)
l_cpu_log == [Line(click_cpu) EXCEPT !.log = TRUE, !.msg = m_boom]
l_cpu_fail == [Line(click_cpu) EXCEPT !.ret = -1]
l_bad == [Line(<<>>) EXCEPT !.err = -EINVAL]
v_2 == <<"2">>
click_cpu2 == << <<k_button, v_2>>, <<k_instance, v_0>>, <<k_name, v_cpu>> >>
l_cpu2 == Line(click_cpu2)
l_cpu_nomem == [Line(click_cpu2) EXCEPT !.fail_at = 2]

Lines == {l_cpu, l_cpu_log}
LogLevels == {LOG_FATAL, LOG_ERROR, LOG_WARN, LOG_DEBUG}
Thresholds == {LOG_FATAL, LOG_DEBUG}
Messages == {m_boom}
AddResults == {"ok", "nomem", "setup"}

\* The sequences over S of length at most n.
SeqsUpTo(S, n) == UNION {[1..k -> S] : k \in 0..n}

(* ------------------------------- actions ------------------------------ *)
\* Updates and error elements among the steps of an operation.
Writes(tr) == Cardinality({i \in 1..Len(tr) : tr[i].e \in {"i3bar_dump", "term_dump", "i3bar_log"}})

\* The state after an operation o that left the machine as m and returned r.
Done(m, b, o, r) ==
    /\ bar' = b
    /\ term' = m.term
    /\ frozen' = m.frozen
    /\ blocks' = m.blocks
    /\ stdout' = m.stdout
    /\ log_handle' = m.log_handle
    /\ log_data' = m.log_data
    /\ stdin' = m.stdin
    /\ op' = o
    /\ ret' = r
    /\ trace' = m.trace
    /\ nout' = nout + Writes(m.trace)
    /\ UNCHANGED log_level

Init ==
    /\ bar = "none"
    /\ term = FALSE
    /\ frozen = FALSE
    /\ blocks = <<>>
    /\ stdout = <<>>
    /\ log_handle = "NULL"
    /\ log_data = "NULL"
    /\ log_level \in Thresholds
    /\ stdin = <<>>
    /\ op = "init"
    /\ ret = 0
    /\ trace = <<>>
    /\ nout = 0

Create ==
    /\ bar = "none"
    /\ \E t \in BOOLEAN, calloc_ok \in BOOLEAN, res \in AddResults :
          LET r == bar_create(Machine, t, calloc_ok, res)
          IN  Done(r.m, r.bar, "create", IF r.bar = "live" THEN 1 ELSE 0)

AddBlock ==
    /\ bar = "live"
    /\ Len(blocks) <= MaxBlocks
    /\ \E map \in Configs, res \in AddResults :
          LET r == bar_config_cb(Machine, map, res)
          IN  Done(r.m, bar, "add", r.err)

Dump ==
    /\ bar = "live"
    /\ nout < MaxElems
    /\ Done(bar_dump(Machine), bar, "dump", 0)

LogEvent ==
    /\ nout < MaxElems
    /\ \E lvl \in LogLevels, msg \in Messages :
          Done(log(Machine, lvl, msg), bar, "log", 0)

\* bar_click, with the lines that arrived since it last ran; in the second
\* case map_create fails.
Click ==
    /\ bar = "live"
    /\ nout < MaxElems
    /\ \/ \E arrived \in SeqsUpTo(Lines, MaxLines - Len(stdin)) :
             LET r == bar_click([Machine EXCEPT !.stdin = @ \o arrived], TRUE)
             IN  Done(r.m, bar, "click", r.err)
       \/ LET r == bar_click(Machine, FALSE)
          IN  Done(r.m, bar, "click", r.err)

Destroy ==
    /\ bar = "live"
    /\ Done(bar_destroy(Machine), "freed", "destroy", 0)

Next ==
    \/ Create
    \/ AddBlock
    \/ Dump
    \/ LogEvent
    \/ Click
    \/ Destroy

Spec == Init /\ [][Next]_vars

(* ----------------------- reading stdout and trace --------------------- *)
IsPrefix(p, s) == Len(s) >= Len(p) /\ SubSeq(s, 1, Len(p)) = p

IsSuffix(p, s) == Len(s) >= Len(p) /\ SubSeq(s, Len(s) - Len(p) + 1, Len(s)) = p

\* The text s has t at position p.
HasAt(s, p, t) == p >= 1 /\ p + Len(t) - 1 <= Len(s) /\ SubSeq(s, p, p + Len(t) - 1) = t

\* Where the lines of s that follow the preamble start.
LineStarts(s) ==
    {p \in (Len(Preamble) + 1)..Len(s) : p = Len(Preamble) + 1 \/ s[p - 1] = NL}

\* The newline that ends the line starting at p (0: the line is not ended).
LineEnd(s, p) ==
    LET ends == {q \in p..Len(s) : s[q] = NL}
    IN  IF ends = {} THEN 0 ELSE CHOOSE q \in ends : \A r \in ends : q <= r

\* The line at p is one top-level element: ,[ ... ] and a newline.
IsElement(s, p) ==
    LET q == LineEnd(s, p)
    IN  /\ q >= p + 3
        /\ HasAt(s, p, <<",", "[">>)
        /\ s[q - 1] = "]"

\* The line at p is the epilogue, and the last line of s.
IsEpilogue(s, p) == p = Len(s) - 1 /\ HasAt(s, p, Epilogue)

\* The element at p is an error element of i3bar_log.
IsErrorElement(s, p) ==
    \/ HasAt(s, p, LogOpen \o LogFullText \o PrefixError)
    \/ HasAt(s, p, LogOpen \o LogFullText \o PrefixFatal)

Count(tr, e) == Cardinality({i \in 1..Len(tr) : tr[i].e = e})

\* The events of tr that touch a click: matching, merging, the click action.
ClickSteps(tr) == {i \in 1..Len(tr) : tr[i].e \in {"bar_find", "copy", "block_click"}}

\* The lines decoded successfully in tr.
Decoded(tr) == {i \in 1..Len(tr) : tr[i].e = "json_read" /\ tr[i].b = 0}

(* ------------------------------- C1 ----------------------------------- *)
\* What a structured-mode bar has written: the preamble first, then one
\* line per element, then (once destroyed) the epilogue as the last line.
WellFramed ==
    /\ bar = "none" => stdout = <<>>
    /\ (bar # "none" /\ ~term) =>
          /\ IsPrefix(Preamble, stdout)
          /\ stdout[Len(stdout)] = NL
          /\ \A p \in LineStarts(stdout) :
                \/ IsElement(stdout, p)
                \/ bar = "freed" /\ IsEpilogue(stdout, p)
          /\ Cardinality({p \in LineStarts(stdout) : IsElement(stdout, p)}) = nout
          /\ bar = "freed" <=> \E p \in LineStarts(stdout) : IsEpilogue(stdout, p)

\* A log event while no bar is live leaves standard output as it was.
LogOutsideWritesNothing == (op' = "log" /\ bar # "live") => stdout' = stdout

\* C1: in structured mode standard output is the preamble once and first,
\* then whole top-level elements ,[ ... ]\n one after the other, then the
\* epilogue once; a log event before create or after destroy writes nothing.
C1_StreamFraming == []WellFramed /\ [][LogOutsideWritesNothing]_vars

\* A destroyed structured bar that wrote updates and error elements, and
\* that a log event reached after the epilogue.
C1_Witness ==
    /\ bar = "freed"
    /\ ~term
    /\ op = "log"
    /\ nout >= 2
    /\ \E p \in LineStarts(stdout) : IsErrorElement(stdout, p)

(* ------------------------------- C2 ----------------------------------- *)
\* What a step of dump() must do, by the frozen flag and the mode.
DumpStep ==
    op' = "dump" =>
       /\ blocks' = blocks
       /\ term' = term
       /\ frozen' = frozen
       /\ IF frozen
          THEN /\ stdout' = stdout
               /\ trace' = <<[e |-> "bar_dump", b |-> 0, f |-> TRUE]>>
          ELSE /\ ~frozen'
               /\ Len(trace') = 2
               /\ trace'[1].e = "bar_dump"
               /\ trace'[2].e = (IF term THEN "term_dump" ELSE "i3bar_dump")
               /\ Len(stdout') > Len(stdout)
               /\ IsPrefix(stdout, stdout')
               /\ IF term
                  THEN /\ HasAt(stdout', Len(stdout) + 1, RestoreCursor)
                       /\ \A p \in (Len(stdout) + 1)..Len(stdout') : stdout'[p] # NL
                  ELSE /\ HasAt(stdout', Len(stdout) + 1, Anchor)
                       /\ IsSuffix(UpdateClose, stdout')

\* C2: dump() on a frozen bar writes nothing and changes neither the block
\* list, the blocks, the mode nor the frozen flag; on an unfrozen bar it runs
\* the renderer of the bar's mode, and only that one, and leaves frozen false.
C2_DumpFrozenNoOp == [][DumpStep]_vars

\* A dump() that was suppressed: the bar is frozen and blocks are configured.
C2_Witness ==
    /\ op = "dump"
    /\ frozen
    /\ Len(blocks) > 1
    /\ trace = <<[e |-> "bar_dump", b |-> 0, f |-> TRUE]>>

(* ------------------------------- C3 ----------------------------------- *)
\* C3 as stated: the frozen flag goes back to false only in a step that
\* decoded a click line.
C3_UnfreezeOnlyOnDecode ==
    [][(frozen /\ ~frozen') => (op' = "click" /\ Decoded(trace') # {})]_vars

\* A frozen bar stays frozen, and its dumps silent, until bar_click runs;
\* bar_click unfreezes as its first step and dumps, decoded line or not.
FrozenUntilClick ==
    /\ (frozen /\ ~frozen') => op' = "click"
    /\ (frozen /\ op' = "dump") => (frozen' /\ stdout' = stdout)
    /\ (frozen /\ op' = "click") =>
          /\ trace'[1] = [e |-> "unfreeze", b |-> 0, f |-> FALSE]
          /\ trace'[2].e = "bar_dump"
          /\ trace'[3].e = "i3bar_dump"
          /\ HasAt(stdout', Len(stdout) + 1, Anchor)
          /\ (Count(trace', "i3bar_log") = 0 => ~frozen')
    /\ (op' = "log" /\ Count(trace', "i3bar_log") > 0) => frozen'

\* C3, amended: once an error or fatal event is surfaced the bar is frozen and
\* every dump() is silent until processClicks is next invoked; that invocation
\* unfreezes first and writes one update, with or without a line to decode.
C3_FrozenUntilClickInvoked == [][FrozenUntilClick]_vars

\* A processClicks that found no input and yet unfroze the bar and dumped.
C3_Witness ==
    /\ op = "click"
    /\ ret = 0
    /\ ~frozen
    /\ Decoded(trace) = {}
    /\ Len(trace) >= 3
    /\ trace[1].e = "unfreeze"
    /\ trace[3].e = "i3bar_dump"

(* ------------------------------- C4 ----------------------------------- *)
\* What dump() writes for the blocks as they are, were the bar not frozen.
UpdateNow == bar_dump([Machine EXCEPT !.frozen = FALSE]).stdout

ClickDumpsFirst ==
    op' = "click" =>
       IF frozen
       THEN /\ trace'[1] = [e |-> "unfreeze", b |-> 0, f |-> FALSE]
            /\ trace'[2].e = "bar_dump"
            /\ Count(trace', "bar_dump") = 1
            /\ Count(trace', "i3bar_dump") + Count(trace', "term_dump") = 1
            /\ \A i \in ClickSteps(trace') \cup Decoded(trace') : i > 3
            /\ IsPrefix(UpdateNow, stdout')
       ELSE /\ Count(trace', "bar_dump") = 0
            /\ Count(trace', "unfreeze") = 0
            /\ Count(trace', "i3bar_dump") + Count(trace', "term_dump") = 0

\* C4: processClicks on a frozen bar unfreezes it and dumps the block list
\* exactly once, before any click is matched, merged or acted upon; on an
\* unfrozen bar it dumps nothing.
C4_ClickDumpsOnceFirst == [][ClickDumpsFirst]_vars

\* A processClicks that found the bar frozen and then dispatched a click.
C4_Witness ==
    /\ op = "click"
    /\ Len(trace) >= 3
    /\ trace[1].e = "unfreeze"
    /\ Count(trace, "block_click") >= 1
    /\ Count(trace, "copy") >= 1

(* ------------------------------- C5 ----------------------------------- *)
\* C5 as stated: a click line decoded while the bar is frozen is followed by
\* its own unfreeze and dump before the click is matched.
C5_UnfreezePerFrozenLine ==
    op = "click" =>
       \A i \in Decoded(trace) :
          trace[i].f =>
             /\ i + 3 <= Len(trace)
             /\ trace[i + 1].e = "unfreeze"
             /\ trace[i + 2].e = "bar_dump"

ClickUnfreezesOnce ==
    op' = "click" =>
       /\ Count(trace', "unfreeze") = (IF frozen THEN 1 ELSE 0)
       /\ \A i \in 1..Len(trace') : trace'[i].e = "unfreeze" => i = 1
       /\ Count(trace', "bar_dump") = Count(trace', "unfreeze")
       /\ \A i \in Decoded(trace') : i > Count(trace', "unfreeze")
       /\ (\E i \in Decoded(trace') : trace'[i].f) => frozen'

\* C5, amended: processClicks unfreezes at most once per invocation, as its
\* first step and only if it found the bar frozen, and that unfreeze is
\* followed by exactly one dump before any line is decoded; a line decoded
\* after a click action of the same invocation froze the bar again gets no
\* unfreeze and no dump, and the bar is still frozen when processClicks returns.
C5_UnfreezeOncePerInvocation == [][ClickUnfreezesOnce]_vars

\* A click line decoded while the bar was frozen by the click action of the
\* line before it.
C5_Witness ==
    /\ op = "click"
    /\ frozen
    /\ \E i \in Decoded(trace) : trace[i].f /\ Count(SubSeq(trace, i, Len(trace)), "block_click") = 1

(* ------------------------------- C6 ----------------------------------- *)
ErrorElements(s) == {p \in LineStarts(s) : IsErrorElement(s, p)}

FreezeIdempotent ==
    /\ (op' = "log" /\ frozen /\ Count(trace', "i3bar_log") = 1) =>
          /\ frozen'
          /\ IsPrefix(stdout, stdout')
          /\ IsErrorElement(stdout', Len(stdout) + 1)
          /\ LineEnd(stdout', Len(stdout) + 1) = Len(stdout')
          /\ IsElement(stdout', Len(stdout) + 1)
    /\ (op' = "click" /\ frozen) =>
          /\ Count(trace', "unfreeze") = 1
          /\ trace'[1].e = "unfreeze"
          /\ ~trace'[1].f
          /\ (Count(trace', "i3bar_log") = 0 => ~frozen')

\* C6: an error or fatal event surfaced while the bar is already frozen
\* writes its own error element and leaves the bar frozen, and one
\* processClicks unfreezes the bar however many events were surfaced.
C6_FreezeIdempotent == [][FreezeIdempotent]_vars

\* One processClicks unfroze a bar on which two error elements were written.
C6_Witness ==
    /\ op = "click"
    /\ ~frozen
    /\ Len(trace) >= 1
    /\ trace[1].e = "unfreeze"
    /\ Cardinality(ErrorElements(stdout)) >= 2

(* --------------------- the click dispatcher alone --------------------- *)
\* Blocks of a loaded configuration and the lines a bar host may send.
c_cpu1 == << <<k_name, v_cpu>>, <<k_instance, v_1>> >>
ClickConfigs == {c_ok, c_cpu, c_cpu1}
ClickLines == {l_cpu, l_cpu2, l_none, l_empty, l_mem, l_bad, l_cpu_fail, l_cpu_nomem}

\* A structured bar after bar_create and bar_load.
InitClick ==
    /\ bar = "live"
    /\ term = FALSE
    /\ frozen = FALSE
    /\ \E cfg \in SeqsUpTo(ClickConfigs, MaxBlocks) : blocks = <<block_setup(NULL)>> \o cfg
    /\ stdout = Preamble
    /\ log_handle = "i3bar_log"
    /\ log_data = "bar"
    /\ log_level = LOG_DEBUG
    /\ stdin = <<>>
    /\ op = "add"
    /\ ret = 0
    /\ trace = <<>>
    /\ nout = 0

\* The bar host writes one more click line to standard input.
Arrive ==
    /\ bar = "live"
    /\ Len(stdin) < MaxLines
    /\ \E line \in ClickLines :
          Done([Machine EXCEPT !.stdin = Append(@, line)], bar, "arrive", 0)

\* bar_click on the lines that wait; map_create may fail.
ClickOnly ==
    /\ bar = "live"
    /\ \E map_ok \in BOOLEAN :
          LET r == bar_click(Machine, map_ok)
          IN  Done(r.m, bar, "click", r.err)

NextClick ==
    \/ Arrive
    \/ ClickOnly

SpecClick == InitClick /\ [][NextClick]_vars

(* ------------------------------- C10 ---------------------------------- *)
\* The pairs of map stored under key.
PairsOf(map, key) == {i \in 1..Len(map) : map[i][1] = key}

\* The attribute of map under key, the empty string when there is none.
Attr(map, key) ==
    IF PairsOf(map, key) = {} THEN <<>>
    ELSE map[CHOOSE i \in PairsOf(map, key) : TRUE][2]

\* The identity of a block or of a click.
Identity(map) == <<Attr(map, k_name), Attr(map, k_instance)>>

Anonymous(map) == PairsOf(map, k_name) = {} /\ PairsOf(map, k_instance) = {}

Finds(tr) == {i \in 1..Len(tr) : tr[i].e = "bar_find"}

\* C10 as stated: a click with neither name nor instance is only ever
\* routed to a block that has neither attribute set.
C10_AnonymousClickUnsetBlock ==
    op = "click" =>
       \A i \in Finds(trace) :
          (Anonymous(trace[i].click) /\ trace[i].b # 0) =>
             Anonymous(trace[i].blocks[trace[i].b])

\* C10, amended: a click is routed to the first block in list order whose
\* (name, instance), absent read as the empty string, equals the click's, and
\* to none if there is none; so a click with neither name nor instance goes
\* to the first block whose name and instance are each absent or empty, which
\* is always the head of the list.
C10_FirstMatchEmptyDefault ==
    op = "click" =>
       \A i \in Finds(trace) :
          LET b == trace[i].b
              list == trace[i].blocks
              same == {j \in 1..Len(list) : Identity(list[j]) = Identity(trace[i].click)}
          IN  /\ b \in same \cup {0}
              /\ b = 0 <=> same = {}
              /\ \A j \in same : b <= j
              /\ Anonymous(trace[i].click) => b = 1

\* A click with neither name nor instance was routed to a block whose name
\* is set, to the empty string.
C10_Witness ==
    /\ op = "click"
    /\ \E i \in Finds(trace) :
          /\ Anonymous(trace[i].click)
          /\ trace[i].b # 0
          /\ PairsOf(trace[i].blocks[trace[i].b], k_name) # {}

(* ------------------------- the renderer alone ------------------------- *)
\* Blocks that a dump has to render.
MaxEncBlocks == 2
\* Dumps of one run.
MaxEncDumps == 1

v_quote == <<"a", "\"", "b">>
v_long == <<LongRun>>

\* A block with the same value under known and unknown keys.
e_all(v) ==
    << <<k_button, v>>, <<k_full_text, v>>, <<k_empty, v>>, <<k_color, v>>,
       <<k_min_width, v>>, <<k_urgent, v>> >>
e_null ==
    << <<k_full_text, v_ok>>, <<k_button, NULL>>, <<k_urgent, NULL>>,
       <<k_empty, NULL>>, <<k_color, NULL>> >>
e_quote == << <<k_full_text, v_quote>> >>
e_long ==
    << <<k_button, v_long>>, <<k_full_text, v_ok>>, <<k_color, v_long>>,
       <<k_urgent, s_true>> >>
EncConfigs ==
    {c_ok, c_cpu, e_all(v_qhello), e_all(s_true), e_all(v_42), e_all(v_ok),
     e_null, e_quote, e_long}

\* A structured bar right after bar_create.
InitEnc ==
    LET r == bar_create([term |-> FALSE, frozen |-> FALSE, blocks |-> <<>>,
                         stdout |-> <<>>, log_handle |-> "NULL", log_data |-> "NULL",
                         stdin |-> <<>>, trace |-> <<>>], FALSE, TRUE, "ok")
    IN  /\ bar = r.bar
        /\ term = r.m.term
        /\ frozen = r.m.frozen
        /\ blocks = r.m.blocks
        /\ stdout = r.m.stdout
        /\ log_handle = r.m.log_handle
        /\ log_data = r.m.log_data
        /\ log_level = LOG_DEBUG
        /\ stdin = r.m.stdin
        /\ op = "create"
        /\ ret = 1
        /\ trace = r.m.trace
        /\ nout = 0

\* bar_load appends the configured blocks before the first dump.
AddBlockEnc ==
    /\ bar = "live"
    /\ Len(blocks) <= MaxEncBlocks
    /\ nout = 0
    /\ \E map \in EncConfigs, res \in AddResults :
          LET r == bar_config_cb(Machine, map, res)
          IN  Done(r.m, bar, "add", r.err)

DumpEnc ==
    /\ bar = "live"
    /\ nout < MaxEncDumps
    /\ Done(bar_dump(Machine), bar, "dump", 0)

\* Clicks on the block "cpu"/"0": its click action succeeds, fails, or fails
\* and reports the failure as an error.
l_cpu_fail_log == [Line(click_cpu) EXCEPT !.ret = -1, !.log = TRUE, !.msg = m_boom]
EncLines == {l_cpu, l_cpu_fail, l_cpu_fail_log}

\* bar_click with one line to read.
ClickEnc ==
    /\ bar = "live"
    /\ nout < MaxEncDumps
    /\ \E line \in EncLines :
          LET r == bar_click([Machine EXCEPT !.stdin = <<line>>], TRUE)
          IN  Done(r.m, bar, "click", r.err)

NextEnc ==
    \/ AddBlockEnc
    \/ DumpEnc
    \/ ClickEnc

SpecEnc == InitEnc /\ [][NextEnc]_vars

(* ---------------------- reading the last update ----------------------- *)
\* The last line of standard output, with its newline.
LastLine(s) ==
    LET starts == LineStarts(s)
        p == CHOOSE q \in starts : \A r \in starts : r <= q
    IN  SubSeq(s, p, Len(s))

\* Where the block objects of the update line start.
Opens(line) == {p \in 1..Len(line) : HasAt(line, p, BlockOpen)}

\* The k-th block object of the update line, from ,{ to }.
Object(line, k) ==
    LET p == CHOOSE q \in Opens(line) : Cardinality({r \in Opens(line) : r < q}) = k - 1
        e == CHOOSE q \in p..Len(line) : line[q] = "}" /\ \A r \in p..(q - 1) : line[r] # "}"
    IN  SubSeq(line, p, e)

\* The blocks that have a full_text pair, in list order.
Visible(list) == SelectSeq(list, LAMBDA b : PairsOf(b, k_full_text) # {})

\* Where the pairs that follow the dummy pair start in a block object.
PairStarts(obj) == {p \in (Len(BlockOpen) + 1)..(Len(obj) - 1) : obj[p] = "," /\ obj[p + 1] = Q}

\* The key of the pair that starts at p.
KeyAt(obj, p) ==
    LET e == CHOOSE q \in (p + 2)..Len(obj) : obj[q] = Q /\ \A r \in (p + 2)..(q - 1) : obj[r] # Q
    IN  SubSeq(obj, p + 2, e - 1)

\* The value of the pair that starts at p: up to the next pair or the brace.
ValueAt(obj, p) ==
    LET s == p + 2 + Len(KeyAt(obj, p)) + 2
        e == CHOOSE q \in s..Len(obj) :
                /\ q = Len(obj) \/ q \in PairStarts(obj)
                /\ \A r \in s..(q - 1) : r \notin PairStarts(obj)
    IN  SubSeq(obj, s, e - 1)

\* The keys of a block object in the order written.
RECURSIVE KeysFrom(_, _)
KeysFrom(obj, p) ==
    IF p > Len(obj) THEN <<>>
    ELSE IF p \in PairStarts(obj) THEN <<KeyAt(obj, p)>> \o KeysFrom(obj, p + 1)
    ELSE KeysFrom(obj, p + 1)

\* The value written for key in a block object (NULL: the key is not there).
Written(obj, key) ==
    LET at == {p \in PairStarts(obj) : KeyAt(obj, p) = key}
    IN  IF at = {} THEN NULL ELSE ValueAt(obj, CHOOSE p \in at : TRUE)

EmptyUpdate == <<",", "[", "{", "\"", "f", "u", "l", "l", "_", "t", "e", "x", "t", "\"", ":", "\"", "\"", "}", "]", "\n">>
ScenarioUpdate == <<",", "[", "{", "\"", "f", "u", "l", "l", "_", "t", "e", "x", "t", "\"", ":", "\"", "\"", "}", ",", "{", "\"", "\"", ":", "\"", "\"", ",", "\"", "f", "u", "l", "l", "_", "t", "e", "x", "t", "\"", ":", "\"", "o", "k", "\"", "}", "]", "\n">>

(* ------------------------------- C7 ----------------------------------- *)
\* What i3bar_dump_block writes for one block.
ObjectOf(b) == i3bar_dump_block([stdout |-> <<>>], b).stdout

RECURSIVE Objects(_)
Objects(list) == IF list = <<>> THEN <<>> ELSE ObjectOf(Head(list)) \o Objects(Tail(list))

\* C7: one structured update is the anchor object followed by one object per
\* block that has full_text, in list order, and nothing for the other blocks,
\* the sentinel among them; the anchor is written even when no block is
\* visible; the list (sentinel, {full_text: ok}) gives
\* ,[{"full_text":""},{"":"","full_text":"ok"}]\n.
C7_OneObjectPerVisibleBlock ==
    (op = "dump" /\ ~term /\ ~frozen) =>
       LET line == LastLine(stdout)
           shown == Visible(blocks)
       IN  /\ line = Anchor \o Objects(shown) \o <<"]", NL>>
           /\ Cardinality(Opens(line)) = Len(shown)
           /\ \A k \in 1..Len(shown) : Object(line, k) = ObjectOf(shown[k])
           /\ shown = <<>> => line = EmptyUpdate
           /\ blocks = <<<<>>, c_ok>> => line = ScenarioUpdate

\* An update of a list with two different visible blocks and the sentinel.
C7_Witness ==
    /\ op = "dump"
    /\ Len(Visible(blocks)) = 2
    /\ Len(blocks) = 3
    /\ ObjectOf(Visible(blocks)[1]) # ObjectOf(Visible(blocks)[2])
    /\ Cardinality(Opens(LastLine(stdout))) = 2

(* ------------------------------- C8 ----------------------------------- *)
KnownNames ==
    {k_full_text, k_short_text, k_color, k_background, k_border, k_min_width,
     k_align, k_name, k_instance, k_urgent, k_separator, k_separator_block_width,
     k_markup, k_border_top, k_border_bottom, k_border_left, k_border_right}

\* The known keys of the block from pair i on, up to a pair that fails.
RECURSIVE KnownKeysOf(_, _)
KnownKeysOf(b, i) ==
    IF i > Len(b) \/ i3bar_dump_key(b[i][1], b[i][2]).err # 0 THEN <<>>
    ELSE (IF b[i][1] \in KnownNames THEN <<b[i][1]>> ELSE <<>>) \o KnownKeysOf(b, i + 1)

\* C8: a key that the known-key table does not hold (the empty key too) puts
\* no pair in the block's object, whatever its value, and is no failure: the
\* object holds the known keys of the block, in the map's order, and no other.
C8_UnknownKeysDropped ==
    (op = "dump" /\ ~term /\ ~frozen) =>
       LET line == LastLine(stdout)
           shown == Visible(blocks)
       IN  \A k \in 1..Len(shown) :
              LET obj == Object(line, k)
                  keys == KeysFrom(obj, 1)
              IN  /\ \A i \in 1..Len(keys) : keys[i] \in KnownNames
                  /\ keys = KnownKeysOf(shown[k], 1)
                  /\ \A i \in 1..Len(shown[k]) :
                        shown[k][i][1] \notin KnownNames =>
                           i3bar_dump_key(shown[k][i][1], shown[k][i][2]) = [err |-> 0, out |-> <<>>]

\* An update of a block with unknown keys (one of them the empty key) whose
\* values are missing, and of one where they are valid JSON.
C8_Witness ==
    /\ op = "dump"
    /\ blocks = <<<<>>, e_null, e_all(v_42)>>
    /\ KeysFrom(Object(LastLine(stdout), 1), 1) = <<k_full_text, k_urgent, k_color>>

(* ------------------------------- C9 ----------------------------------- *)
MustBeString ==
    {k_full_text, k_short_text, k_color, k_background, k_border, k_align,
     k_name, k_instance, k_markup}

ValidJson == {v_qhello, s_true, v_42}

\* The pairs of block b that the encoding reaches: a known key, and no pair
\* before it whose escaped value does not fit the buffer.
Reached(b) ==
    {i \in 1..Len(b) :
        /\ b[i][1] \in KnownNames
        /\ \A j \in 1..i : i3bar_dump_key(b[j][1], b[j][2]).err = 0}

\* C9 as stated: under every known key a value that is valid JSON is
\* written as it is.
C9_ValidJsonVerbatim ==
    (op = "dump" /\ ~term /\ ~frozen) =>
       \A k \in 1..Len(Visible(blocks)) :
          LET b == Visible(blocks)[k]
              obj == Object(LastLine(stdout), k)
          IN  \A i \in Reached(b) :
                 b[i][2] \in ValidJson => Written(obj, b[i][1]) = b[i][2]

\* C9, amended: of the pairs the encoding reaches, a value that is valid
\* JSON is written as it is under a key that is not flagged must-be-string;
\* under a key flagged must-be-string only a valid quoted JSON string is
\* written as it is, and any other valid JSON value (true, 42) is written
\* escaped and wrapped in quotes.
C9_VerbatimByKeyType ==
    (op = "dump" /\ ~term /\ ~frozen) =>
       \A k \in 1..Len(Visible(blocks)) :
          LET b == Visible(blocks)[k]
              obj == Object(LastLine(stdout), k)
          IN  \A i \in Reached(b) :
                 LET key == b[i][1]
                     v == b[i][2]
                     w == Written(obj, key)
                 IN  /\ v = v_qhello => w = v
                     /\ (v \in {s_true, v_42} /\ key \notin MustBeString) => w = v
                     /\ (v \in {s_true, v_42} /\ key \in MustBeString) => w = <<Q>> \o v \o <<Q>>

\* An update of a block that holds true under full_text and under urgent.
C9_Witness ==
    /\ op = "dump"
    /\ \E k \in 1..Len(Visible(blocks)) :
          /\ Visible(blocks)[k] = e_all(s_true)
          /\ Written(Object(LastLine(stdout), k), k_urgent) = s_true
          /\ Written(Object(LastLine(stdout), k), k_full_text) = <<Q>> \o s_true \o <<Q>>

(* ------------------------------- C11 ---------------------------------- *)
KeysOf(map) == {map[i][1] : i \in 1..Len(map)}

\* The value of the one pair of map under key.
ValueOf(map, key) == map[CHOOSE i \in PairsOf(map, key) : TRUE][2]

\* new is old with the first n pairs of click written over it: each of those
\* keys holds the click's value, once, and every other pair is as it was.
Merged(new, old, click, n) ==
    LET written == {click[i][1] : i \in 1..n}
    IN  /\ KeysOf(new) = KeysOf(old) \cup written
        /\ Len(new) = Cardinality(KeysOf(new))
        /\ \A i \in 1..n : ValueOf(new, click[i][1]) = click[i][2]
        /\ \A k \in KeysOf(old) \ written : ValueOf(new, k) = ValueOf(old, k)

\* The list as the next line of the invocation finds it, or as the
\* invocation leaves it.
BlocksAfter(tr, i) ==
    LET later == {j \in Finds(tr) : j > i}
    IN  IF later = {} THEN blocks
        ELSE tr[CHOOSE j \in later : \A k \in later : j <= k].blocks

\* A line that matches no block: nothing is merged or invoked, the list is
\* as it was, and the next line is read.
UnmatchedLine(tr, i) ==
    /\ i < Len(tr)
    /\ tr[i + 1].e = "json_read"
    /\ BlocksAfter(tr, i) = tr[i].blocks

\* A line that matches block b and whose merge succeeds: every pair of the
\* click is in block b, no other block changed, and the click action of b
\* then ran, once, on the merged block.
MatchedLine(tr, i) ==
    LET b == tr[i].b
        before == tr[i].blocks
    IN  /\ i + 2 <= Len(tr)
        /\ tr[i + 1].e = "copy"
        /\ tr[i + 1].b = b
        /\ tr[i + 1].err = 0
        /\ Len(tr[i + 1].blocks) = Len(before)
        /\ \A j \in 1..Len(before) : j # b => tr[i + 1].blocks[j] = before[j]
        /\ Merged(tr[i + 1].blocks[b], before[b], tr[i].click, Len(tr[i].click))
        /\ tr[i + 2].e = "block_click"
        /\ tr[i + 2].b = b
        /\ (i + 3 <= Len(tr) => tr[i + 3].e = "json_read")
        /\ BlocksAfter(tr, i) = tr[i + 1].blocks

\* A line that matches block b and whose merge fails: the pairs before the
\* failing one are in block b, no other block changed, no click action ran
\* and the invocation ended there with the error.
FailedMerge(tr, i) ==
    LET b == tr[i].b
        before == tr[i].blocks
    IN  /\ i + 1 = Len(tr)
        /\ tr[i + 1].e = "copy"
        /\ tr[i + 1].b = b
        /\ tr[i + 1].err = ret
        /\ ret # 0
        /\ Len(tr[i + 1].blocks) = Len(before)
        /\ \A j \in 1..Len(before) : j # b => tr[i + 1].blocks[j] = before[j]
        /\ \E n \in 0..(Len(tr[i].click) - 1) :
              Merged(tr[i + 1].blocks[b], before[b], tr[i].click, n)
        /\ blocks = tr[i + 1].blocks

\* Every click action follows the merge of the line it belongs to.
ClickAfterMerge(tr) ==
    \A k \in 1..Len(tr) :
       tr[k].e = "block_click" =>
          k >= 3 /\ tr[k - 1].e = "copy" /\ tr[k - 1].b = tr[k].b /\ tr[k - 2].e = "bar_find"

\* C11 as stated: every decoded line that matches a block has all its pairs
\* written into that block and the block's click action invoked once after
\* the merge; a line that matches none changes nothing and the loop goes on.
C11_EveryPairThenClick ==
    op = "click" =>
       /\ ClickAfterMerge(trace)
       /\ \A i \in Finds(trace) :
             IF trace[i].b = 0 THEN UnmatchedLine(trace, i) ELSE MatchedLine(trace, i)

\* C11, amended: for a decoded line that matches a block, the pairs of the
\* click are written into that block in order, overwriting; if every write
\* succeeds the block's click action is then invoked exactly once, and if a
\* write fails the pairs before it stay written, the click action is not
\* invoked and the invocation ends with that error; a line that matches no
\* block changes no block, invokes nothing and the loop reads the next
\* line; no block other than the matched one is modified.
C11_MergeThenClickUnlessMergeFails ==
    op = "click" =>
       /\ ClickAfterMerge(trace)
       /\ \A i \in Finds(trace) :
             IF trace[i].b = 0 THEN UnmatchedLine(trace, i)
             ELSE MatchedLine(trace, i) \/ FailedMerge(trace, i)

\* One invocation read a line that matched no block and then a line whose
\* button overwrote the button an earlier click had left in the block.
C11_Witness ==
    /\ op = "click"
    /\ \E i, j \in Finds(trace) :
          /\ i < j
          /\ trace[i].b = 0
          /\ trace[j].b = 2
          /\ PairsOf(trace[j].blocks[2], k_button) # {}
          /\ ValueOf(trace[j].blocks[2], k_button) = v_1
          /\ ValueOf(trace[j].click, k_button) = v_2
          /\ ValueOf(blocks[2], k_button) = v_2
          /\ Count(trace, "block_click") = 1

(* ------------------------ the log handler alone ----------------------- *)
\* A structured bar right after bar_create, under any reporting threshold.
InitLog ==
    LET r == bar_create([term |-> FALSE, frozen |-> FALSE, blocks |-> <<>>,
                         stdout |-> <<>>, log_handle |-> "NULL", log_data |-> "NULL",
                         stdin |-> <<>>, trace |-> <<>>], FALSE, TRUE, "ok")
    IN  /\ bar = r.bar
        /\ term = r.m.term
        /\ frozen = r.m.frozen
        /\ blocks = r.m.blocks
        /\ stdout = r.m.stdout
        /\ log_handle = r.m.log_handle
        /\ log_data = r.m.log_data
        /\ log_level \in LogLevels
        /\ stdin = r.m.stdin
        /\ op = "create"
        /\ ret = 1
        /\ trace = r.m.trace
        /\ nout = 0

\* A message of severity lvl reaches the log; ret keeps the severity.
LogOnly ==
    /\ bar = "live"
    /\ nout < MaxElems
    /\ \E lvl \in LogLevels, msg \in Messages :
          Done(log(Machine, lvl, msg), bar, "log", lvl)

\* bar_click with nothing to read.
ClickLog ==
    /\ bar = "live"
    /\ nout < MaxElems
    /\ LET r == bar_click(Machine, TRUE)
       IN  Done(r.m, bar, "click", r.err)

NextLog ==
    \/ LogOnly
    \/ ClickLog
    \/ Dump

SpecLog == InitLog /\ [][NextLog]_vars

(* ------------------------------- C12 ---------------------------------- *)
\* The severity is error or fatal and no more verbose than the threshold.
Qualifies(lvl) == lvl \in {LOG_FATAL, LOG_ERROR} /\ lvl <= log_level

LogStep ==
    op' = "log" =>
       IF Qualifies(ret')
       THEN /\ frozen'
            /\ nout' = nout + 1
            /\ IsPrefix(stdout, stdout')
            /\ IsErrorElement(stdout', Len(stdout) + 1)
            /\ LineEnd(stdout', Len(stdout) + 1) = Len(stdout')
       ELSE /\ stdout' = stdout
            /\ frozen' = frozen
            /\ nout' = nout

\* C12: a log event that reaches the handler writes an error element and
\* freezes the bar exactly when its severity is error or fatal and not more
\* verbose than the threshold; any other event (warning, debug, error above
\* the threshold) writes nothing and leaves the frozen flag as it was.
C12_SurfacedIffSevereWithinThreshold == [][LogStep]_vars

\* An error event was ignored under the threshold fatal, on a bar that an
\* earlier fatal event had frozen.
C12_Witness ==
    /\ op = "log"
    /\ ret = LOG_ERROR
    /\ log_level = LOG_FATAL
    /\ trace = <<>>
    /\ frozen
    /\ Cardinality(ErrorElements(stdout)) = 1

(* ------------------------------- C13 ---------------------------------- *)
Steps(tr, e) == {i \in 1..Len(tr) : tr[i].e = e}

\* C13: the log sink holds the handler and the bar exactly while a bar in
\* structured mode is live, so a set handler never refers to a freed bar;
\* create installs it in structured mode only, once the preamble is written;
\* destroy clears it before it destroys any block and before it frees the bar.
C13_SinkWhileStructuredLive ==
    /\ log_handle = "i3bar_log" <=> (bar = "live" /\ ~term)
    /\ log_data = "bar" <=> log_handle = "i3bar_log"
    /\ log_handle \in {"NULL", "i3bar_log"}
    /\ log_data \in {"NULL", "bar"}
    /\ (op = "create" /\ bar = "live" /\ ~term) =>
          /\ Cardinality(Steps(trace, "log_install")) = 1
          /\ \A i \in Steps(trace, "log_install") :
                /\ trace[i].out = Len(Preamble)
                /\ trace[i].handle = "i3bar_log"
                /\ trace[i].data = "bar"
          /\ stdout = Preamble
    /\ (op = "create" /\ (bar = "none" \/ term)) => Steps(trace, "log_install") = {}
    /\ (op = "destroy" /\ ~term) =>
          /\ Cardinality(Steps(trace, "log_clear")) = 1
          /\ \A i \in Steps(trace, "log_clear") :
                /\ trace[i].handle = "NULL"
                /\ trace[i].data = "NULL"
                /\ \A j \in Steps(trace, "block_destroy") \cup Steps(trace, "free") : i < j
          /\ Steps(trace, "block_destroy") # {}
          /\ Cardinality(Steps(trace, "free")) = 1
    /\ op \notin {"create", "destroy"} =>
          Steps(trace, "log_install") \cup Steps(trace, "log_clear") = {}

\* A structured bar with a configured block was destroyed: the sink was
\* cleared, then two blocks were destroyed, then the bar was freed.
C13_Witness ==
    /\ op = "destroy"
    /\ ~term
    /\ bar = "freed"
    /\ log_handle = "NULL"
    /\ Steps(trace, "log_clear") = {1}
    /\ Steps(trace, "block_destroy") = {2, 3}
    /\ Steps(trace, "free") = {4}

(* ------------------------------- C14 ---------------------------------- *)
AddStep ==
    op' = "add" =>
          /\ Cardinality(Steps(trace', "map_destroy")) = 1
          /\ trace'[Len(trace')].e = "map_destroy"
          /\ IF ret' = 0
             THEN /\ Len(blocks') = Len(blocks) + 1
                  /\ SubSeq(blocks', 1, Len(blocks)) = blocks
                  /\ blocks'[Len(blocks')] \in EncConfigs
             ELSE /\ ret' = -ENOMEM
                  /\ blocks' = blocks
          /\ stdout' = stdout

\* An update holds the visible blocks in the order of the list.
DumpInListOrder ==
    (op = "dump" /\ ~frozen) =>
       LastLine(stdout) = Anchor \o Objects(Visible(blocks)) \o UpdateClose

\* C14: addBlockFromConfig puts the new block at the tail and leaves the
\* head and the order of the blocks before it as they were, so that a dump
\* writes the blocks in the order they were added; the map it was given is
\* destroyed exactly once, on success and on failure; when block_create or
\* block_setup fails it reports an error and the list is what it was.
C14_AppendAtTailOrUnchanged == []DumpInListOrder /\ [][AddStep]_vars

\* A second configured block was added behind the first one: the list is the
\* sentinel and the two blocks in the order they were added, and the map was
\* destroyed.
C14_Witness ==
    /\ op = "add"
    /\ ret = 0
    /\ blocks = <<<<>>, e_quote, c_ok>>
    /\ trace = <<[e |-> "map_destroy", b |-> 0, f |-> FALSE]>>

(* ------------------------------- C15 ---------------------------------- *)
\* The steps of tr that took a line from standard input.
Consumed(tr) == {i \in Steps(tr, "json_read") : tr[i].b # -EAGAIN}

\* The line of input that step i of tr works on.
LineOf(input, tr, i) == input[Cardinality({j \in Consumed(tr) : j <= i})]

\* Step i of tr failed: a decode error other than "no data", a failed merge
\* or a failed click action.
Failed(input, tr, i) ==
    \/ tr[i].e = "json_read" /\ tr[i].b \notin {0, -EAGAIN}
    \/ tr[i].e = "copy" /\ tr[i].err # 0
    \/ tr[i].e = "block_click" /\ LineOf(input, tr, i).ret # 0

\* What the failed step i reported.
ErrorOf(input, tr, i) ==
    IF tr[i].e = "json_read" THEN tr[i].b
    ELSE IF tr[i].e = "copy" THEN tr[i].err
    ELSE LineOf(input, tr, i).ret

\* The steps of tr that hold the list: as found for a line, as merged.
Lists(tr) == Steps(tr, "bar_find") \cup Steps(tr, "copy")

\* The list goes from step to step: a line finds it as the line before left
\* it, and the invocation leaves it as its last line did.
EffectsKept(before, tr, after) ==
    /\ \A i \in Lists(tr) :
          LET earlier == {j \in Lists(tr) : j < i}
              prev == IF earlier = {} THEN before
                      ELSE tr[CHOOSE j \in earlier : \A k \in earlier : k <= j].blocks
          IN  IF tr[i].e = "bar_find" THEN tr[i].blocks = prev
              ELSE /\ Len(tr[i].blocks) = Len(prev)
                   /\ \A j \in 1..Len(prev) : j # tr[i].b => tr[i].blocks[j] = prev[j]
    /\ after = (IF Lists(tr) = {} THEN before
                ELSE tr[CHOOSE j \in Lists(tr) : \A k \in Lists(tr) : k <= j].blocks)

\* The loop did not run (map_create failed): an error, and nothing was read.
NoLoop == ret' = -ENOMEM /\ stdin' = stdin /\ blocks' = blocks

ClickResult ==
    op' = "click" =>
       IF Steps(trace', "json_read") = {} THEN NoLoop
       ELSE LET tr == trace'
                n == Len(tr)
            IN  /\ stdin' = SubSeq(stdin, Cardinality(Consumed(tr)) + 1, Len(stdin))
                /\ ret' = 0 <=> (tr[n].e = "json_read" /\ tr[n].b = -EAGAIN)
                /\ ret' = 0 => (stdin' = <<>> /\ Cardinality(Consumed(tr)) = Len(stdin))
                /\ ret' # 0 => (Failed(stdin, tr, n) /\ ret' = ErrorOf(stdin, tr, n))
                /\ \A i \in 1..(n - 1) : ~Failed(stdin, tr, i)
                /\ EffectsKept(blocks, tr, blocks')

\* C15: processClicks returns success exactly when its loop ends because the
\* line reader has no data; any other decode failure, a failed merge or a
\* failed click action ends the loop at that line and is what processClicks
\* returns, the first error there was; the lines behind it stay unread, and
\* what the lines before it did to their blocks stays.
C15_FirstErrorEndsLoop == [][ClickResult]_vars

\* The first line was merged and dispatched, the second could not be
\* decoded: processClicks returned that error and the button of the first
\* click is in the block.
C15_Witness ==
    /\ op = "click"
    /\ ret = -EINVAL
    /\ Count(trace, "block_click") = 1
    /\ Cardinality(Steps(trace, "json_read")) = 2
    /\ trace[Len(trace)].e = "json_read"
    /\ Len(blocks) = 2
    /\ PairsOf(blocks[2], k_button) # {}
    /\ ValueOf(blocks[2], k_button) = v_2

(* ------------------------------- C16 ---------------------------------- *)
\* A live bar has its sentinel at the head of the list.
HeadIsSentinel == bar = "live" => (Len(blocks) >= 1 /\ Identity(blocks[1]) = <<<<>>, <<>>>>)

ListStep ==
    /\ (bar = "live" /\ bar' = "live") =>
          /\ Len(blocks') >= Len(blocks)
          /\ \A j \in 1..Len(blocks) :
                IF op' = "click"
                THEN /\ KeysOf(blocks[j]) \subseteq KeysOf(blocks'[j])
                     /\ Identity(blocks'[j]) = Identity(blocks[j])
                ELSE blocks'[j] = blocks[j]
          /\ \A i \in Steps(trace', "block_destroy") : trace'[i].b = 0
    /\ op' = "destroy" =>
          LET d == Steps(trace', "block_destroy")
          IN  /\ Cardinality(d) = Len(blocks)
              /\ \A i \in d : trace'[i].b = Cardinality({j \in d : j <= i})
              /\ \A i \in d, j \in Steps(trace', "free") : i < j
    /\ op' = "create" =>
          IF bar' = "live"
          THEN blocks' = <<<<>>>>
          ELSE /\ bar' = "none"
               /\ blocks' = <<>>
               /\ stdout' = <<>>
               /\ log_handle' = "NULL"
               /\ log_data' = "NULL"

\* C16: from a successful create to destroy the list is never empty and its
\* head is the sentinel, created without attributes; adding a block, a dump,
\* processClicks and log events remove no block and move none; the blocks of
\* the list are destroyed by destroy alone, head first and in list order;
\* a create that cannot allocate the bar or its sentinel returns no bar,
\* writes nothing and installs no log sink.
C16_SentinelHeadNoRemoval == []HeadIsSentinel /\ [][ListStep]_vars

\* A terminal bar with a configured block was destroyed: the sentinel went
\* first, the configured block second, then the bar.
C16_Witness ==
    /\ op = "destroy"
    /\ term
    /\ bar = "freed"
    /\ Len(trace) = 3
    /\ trace[1] = [e |-> "block_destroy", b |-> 1, f |-> FALSE]
    /\ trace[2] = [e |-> "block_destroy", b |-> 2, f |-> FALSE]
    /\ trace[3].e = "free"

(* ------------------------------- C17 ---------------------------------- *)
\* Pair i of block b cannot be encoded: a known key whose value has to be
\* escaped and does not fit the buffer with its quotes and terminator.
FailingPair(b, i) ==
    /\ b[i][1] \in KnownNames
    /\ b[i][2] # NULL
    /\ ~json_is_valid(b[i][2])
    /\ ByteLen(b[i][2]) + 3 > BUFSIZ

\* The known keys of b before its first failing pair, in the map's order.
RECURSIVE KeysBeforeFailure(_, _)
KeysBeforeFailure(b, i) ==
    IF i > Len(b) \/ FailingPair(b, i) THEN <<>>
    ELSE (IF b[i][1] \in KnownNames THEN <<b[i][1]>> ELSE <<>>) \o KeysBeforeFailure(b, i + 1)

Occurrences(s, c) == Cardinality({p \in 1..Len(s) : s[p] = c})

\* An update of blocks with pairs that cannot be encoded: the object of such
\* a block holds the pairs before the failing one and is closed, and the
\* update is closed.
EncodeAbortLine ==
    (op = "dump" /\ ~frozen) =>
       LET line == LastLine(stdout)
           shown == Visible(blocks)
       IN  /\ HasAt(line, 1, Anchor)
           /\ IsSuffix(UpdateClose, line)
           /\ Occurrences(line, NL) = 1
           /\ Occurrences(line, "{") = Occurrences(line, "}")
           /\ Occurrences(line, "[") = Occurrences(line, "]")
           /\ Occurrences(line, LongRun) = 0
           /\ Cardinality(Opens(line)) = Len(shown)
           /\ \A k \in 1..Len(shown) :
                 /\ KeysFrom(Object(line, k), 1) = KeysBeforeFailure(shown[k], 1)
                 /\ IsSuffix(BlockClose, Object(line, k))

\* The update is added to what was written, and the list and the frozen flag
\* are as before.
EncodeAbort ==
    op' = "dump" =>
       /\ blocks' = blocks
       /\ frozen' = frozen
       /\ IsPrefix(stdout, stdout')

\* The step of tr at which a click action failed (0: none did): the last
\* step of the loop, when the invocation returned an error from there.
FailedAction(tr, r) ==
    LET loop == Steps(tr, "json_read") \cup Steps(tr, "copy") \cup Steps(tr, "block_click")
        last == CHOOSE i \in loop : \A j \in loop : j <= i
    IN  IF r # 0 /\ loop # {} /\ tr[last].e = "block_click" THEN last ELSE 0

\* The list after a click action failed: every block is there, and only the
\* block of the click was written to.
ListIntact ==
    LET k == FailedAction(trace', ret')
    IN  /\ Len(blocks') = Len(blocks)
        /\ \A j \in 1..Len(blocks) :
              IF j = trace'[k].b THEN KeysOf(blocks[j]) \subseteq KeysOf(blocks'[j])
              ELSE blocks'[j] = blocks[j]
        /\ stdout'[Len(stdout')] = NL

\* C17 as stated: an encoding failure and a click-action failure leave the
\* stream well-formed and the list intact, and the frozen flag as it was
\* before the failing step.
C17_AbortKeepsFrozenFlag ==
    /\ []EncodeAbortLine
    /\ [][/\ EncodeAbort
          /\ (op' = "click" /\ FailedAction(trace', ret') # 0) =>
                /\ ListIntact
                /\ frozen' = trace'[FailedAction(trace', ret')].f]_vars

\* C17, amended: a per-key encoding failure writes nothing for the failing
\* key and for the keys behind it, and the block object and the update are
\* still closed; a click-action failure ends processClicks with the list
\* intact; the frozen flag keeps the value it had before the failing step,
\* except that a failing click action that surfaced an error or fatal event
\* during that step leaves the bar frozen.
C17_AbortKeepsStreamAndList ==
    /\ []EncodeAbortLine
    /\ [][/\ EncodeAbort
          /\ (op' = "click" /\ FailedAction(trace', ret') # 0) =>
                LET k == FailedAction(trace', ret')
                    surfaced == {i \in Steps(trace', "i3bar_log") : i > k}
                IN  /\ ListIntact
                    /\ frozen' = (IF surfaced = {} THEN trace'[k].f ELSE TRUE)]_vars

\* An update of a list whose second block has a colour too long to encode:
\* its object holds full_text alone and is closed, and the update is closed.
C17_Witness ==
    /\ op = "dump"
    /\ ~frozen
    /\ blocks = <<<<>>, c_ok, e_long>>
    /\ KeysFrom(Object(LastLine(stdout), 2), 1) = <<k_full_text>>
    /\ IsSuffix(BlockClose \o UpdateClose, LastLine(stdout))

(* ------------------------------- C18 ---------------------------------- *)
\* "key": as written in front of a value.
Key(k) == <<Q>> \o k \o <<Q, ":">>

\* A JSON string with the text s, none of whose bytes needs escaping.
Str(s) == <<Q>> \o s \o <<Q>>

\* The element the claim describes for a message of severity lvl.
ErrorElementOf(lvl, msg) ==
    LET prefix == IF lvl = LOG_FATAL THEN PrefixFatal ELSE PrefixError
        color == IF lvl = LOG_FATAL THEN ColorFatal ELSE ColorError
    IN  <<",", "[", "{">>
        \o Key(k_full_text) \o Str(prefix \o msg \o LogSuffix) \o <<",">>
        \o Key(k_short_text) \o Str(prefix \o msg) \o <<",">>
        \o Key(k_urgent) \o s_true \o <<",">>
        \o Key(k_color) \o Str(color)
        \o <<"}", "]", NL>>

\* C18: a surfaced log event writes one top-level element ,[{...}]\n of its
\* own, whatever the block list holds: full_text is prefix, message and the
\* fixed suffix, short_text is prefix and message, urgent is the JSON boolean
\* true, color is #FF0000 with prefix "Fatal! " for fatal and #FF8000 with
\* prefix "Error: " for error; afterwards the bar is frozen.
C18_ErrorElementUrgentTrue ==
    (op = "log" /\ Steps(trace, "i3bar_log") # {}) =>
       /\ Steps(trace, "i3bar_log") = {1}
       /\ frozen
       /\ \E msg \in Messages : LastLine(stdout) = ErrorElementOf(trace[1].b, msg)

(* ------------------------------- C19 ---------------------------------- *)
\* The block of list that a click is routed to by identity (0: none).
Route(list, click) ==
    LET same == {j \in 1..Len(list) : Identity(list[j]) = Identity(click)}
    IN  IF same = {} THEN 0 ELSE CHOOSE j \in same : \A k \in same : j <= k

\* processClicks leaves every block the (name, instance) it had.
IdentityKept ==
    op' = "click" =>
       /\ Len(blocks') = Len(blocks)
       /\ \A j \in 1..Len(blocks) : Identity(blocks'[j]) = Identity(blocks[j])

\* Each click of the invocation, sent again, finds the block it found.
RoutesAgain ==
    op = "click" =>
       \A i \in Finds(trace) : Route(blocks, trace[i].click) = trace[i].b

\* C19: merging a click into the block it matched never changes a block's
\* (name, instance), absent attributes read as the empty string; every block
\* has after processClicks the pair it had before, and a click that matched
\* a block is routed to the same block when it comes again.
C19_IdentityStable == []RoutesAgain /\ [][IdentityKept]_vars

\* Two clicks of one invocation with name and instance in them were merged
\* into the same block, the second after the first had been written there.
C19_Witness ==
    /\ op = "click"
    /\ \E i, j \in Finds(trace) :
          /\ i < j
          /\ trace[i].b = 2
          /\ trace[j].b = 2
          /\ trace[i].click # trace[j].click
          /\ PairsOf(trace[i].click, k_name) # {}
          /\ PairsOf(trace[i].click, k_instance) # {}
          /\ trace[j].blocks[2] # trace[i].blocks[2]
    /\ Cardinality(Steps(trace, "copy")) = 2

(* ------------------------------- C20 ---------------------------------- *)
\* C20: a bar in terminal mode is never frozen: the log handler, which alone
\* sets the flag, is installed in structured mode only; so a dump of a
\* terminal bar always runs the terminal renderer, processClicks on a
\* terminal bar never unfreezes and never dumps, and a log event on it
\* writes nothing.
C20_TerminalNeverFrozen ==
    /\ term => (~frozen /\ log_handle = "NULL" /\ log_data = "NULL")
    /\ frozen => (~term /\ ErrorElements(stdout) # {})
    /\ (op = "dump" /\ term) =>
          /\ Len(trace) = 2
          /\ trace[1] = [e |-> "bar_dump", b |-> 0, f |-> FALSE]
          /\ trace[2].e = "term_dump"
    /\ (op = "click" /\ term) =>
          /\ Steps(trace, "unfreeze") = {}
          /\ Steps(trace, "bar_dump") = {}
          /\ Steps(trace, "term_dump") = {}
          /\ Steps(trace, "i3bar_log") = {}
    /\ (op = "log" /\ term) => trace = <<>>

\* On a terminal bar the click action of a configured block reported an
\* error: nothing was surfaced, and the bar is not frozen.
C20_Witness ==
    /\ op = "click"
    /\ term
    /\ bar = "live"
    /\ ~frozen
    /\ Steps(trace, "error") # {}
    /\ Steps(trace, "block_click") # {}

====
